---------------------------- MODULE Spec2Model ----------------------------
(***************************************************************************)
(* A model of naked-rust-api (src/src/lib.rs, src/src/main.rs): the thread *)
(* pool, the request parser and router, the mutex-guarded store and the    *)
(* connection handler.  Request and response texts are strings; the        *)
(* parser works on them character by character as the Rust code does.      *)
(***************************************************************************)
EXTENDS Integers, Sequences, FiniteSets, TLC

(***************************************************************************)
(* Bounds of the model.                                                    *)
(***************************************************************************)
MaxWorkers == 2
MaxJobs == 3
MaxCalls == 3

(***************************************************************************)
(* Text helpers: the std::str operations process_request uses.             *)
(***************************************************************************)
CR == "\r"
LF == "\n"
CRLF == "\r\n"

Ch(s, i) == SubSeq(s, i, i)

DropFirst(s, n) == SubSeq(s, n + 1, Len(s))

StartsWith(s, p) == Len(s) >= Len(p) /\ SubSeq(s, 1, Len(p)) = p

EndsWith(s, p) == Len(s) >= Len(p) /\ SubSeq(s, Len(s) - Len(p) + 1, Len(s)) = p

\* str::strip_prefix, used only after starts_with succeeded
StripPrefix(s, p) == DropFirst(s, Len(p))

Occurs(s, pat, i) == SubSeq(s, i, i + Len(pat) - 1) = pat

\* the first start position of pat in s among lo..hi, where there is one;
\* the range is halved, so that a long text is searched without deep nesting
RECURSIVE FindIn(_, _, _, _)
FindIn(s, pat, lo, hi) ==
    IF lo = hi THEN lo
    ELSE LET mid == (lo + hi) \div 2 IN
         IF \E i \in lo..mid : Occurs(s, pat, i)
         THEN FindIn(s, pat, lo, mid)
         ELSE FindIn(s, pat, mid + 1, hi)

\* index of the first occurrence of pat in s, 0 when there is none
Find(s, pat) ==
    LET last == Len(s) - Len(pat) + 1 IN
    IF \E i \in 1..last : Occurs(s, pat, i) THEN FindIn(s, pat, 1, last) ELSE 0

\* str::lines: split at "\n", drop the "\n" and one "\r" before it; the last
\* line needs no terminator, and an empty text has no lines
RECURSIVE Lines(_)
Lines(s) ==
    IF s = "" THEN << >>
    ELSE LET i == Find(s, LF) IN
         IF i = 0 THEN << s >>
         ELSE LET raw == SubSeq(s, 1, i - 1)
                  line == IF EndsWith(raw, CR) THEN SubSeq(raw, 1, Len(raw) - 1) ELSE raw
              IN << line >> \o Lines(DropFirst(s, i))

IsWhitespace(c) == c \in {" ", "\t", "\r", "\n"}

\* str::split_whitespace: the maximal runs of non-whitespace characters
RECURSIVE SplitWs(_, _, _)
SplitWs(s, i, cur) ==
    IF i > Len(s) THEN (IF cur = "" THEN << >> ELSE << cur >>)
    ELSE IF IsWhitespace(Ch(s, i))
         THEN (IF cur = "" THEN << >> ELSE << cur >>) \o SplitWs(s, i + 1, "")
         ELSE SplitWs(s, i + 1, cur \o Ch(s, i))

SplitWhitespace(s) == SplitWs(s, 1, "")

\* str::trim
RECURSIVE TrimStart(_)
TrimStart(s) ==
    IF s # "" /\ IsWhitespace(Ch(s, 1)) THEN TrimStart(DropFirst(s, 1)) ELSE s

RECURSIVE TrimEnd(_)
TrimEnd(s) ==
    IF s # "" /\ IsWhitespace(Ch(s, Len(s))) THEN TrimEnd(SubSeq(s, 1, Len(s) - 1)) ELSE s

Trim(s) == TrimEnd(TrimStart(s))

\* str::split_once(": "): << >> when the separator is absent
SplitOnce(s, sep) ==
    LET i == Find(s, sep) IN
    IF i = 0 THEN << >>
    ELSE << SubSeq(s, 1, i - 1), DropFirst(s, i + Len(sep) - 1) >>

UpperLetters == "ABCDEFGHIJKLMNOPQRSTUVWXYZ"
LowerLetters == "abcdefghijklmnopqrstuvwxyz"

ToAsciiLower(c) ==
    LET i == Find(UpperLetters, c) IN
    IF Len(c) = 1 /\ i > 0 THEN Ch(LowerLetters, i) ELSE c

\* str::eq_ignore_ascii_case
EqIgnoreAsciiCase(a, b) ==
    /\ Len(a) = Len(b)
    /\ \A i \in 1..Len(a) : ToAsciiLower(Ch(a, i)) = ToAsciiLower(Ch(b, i))

Digits == "0123456789"

IsDigit(c) == Find(Digits, c) > 0

RECURSIVE DigitsValue(_, _)
DigitsValue(s, acc) ==
    IF s = "" THEN acc
    ELSE DigitsValue(DropFirst(s, 1), acc * 10 + (Find(Digits, Ch(s, 1)) - 1))

\* str::parse::<usize>: an optional "+" and then one or more digits; -1 stands
\* for Err(ParseIntError)
ParseUsize(s) ==
    LET d == IF StartsWith(s, "+") THEN DropFirst(s, 1) ELSE s IN
    IF d # "" /\ \A i \in 1..Len(d) : IsDigit(Ch(d, i))
    THEN DigitsValue(d, 0)
    ELSE -1


\* [&str]::join("\n")
RECURSIVE Join(_, _)
Join(lines, i) ==
    IF i > Len(lines) THEN ""
    ELSE IF i = Len(lines) THEN lines[i]
    ELSE lines[i] \o LF \o Join(lines, i + 1)

(***************************************************************************)
(* Option<T> is a sequence: << >> for None, << v >> for Some(v).           *)
(***************************************************************************)
None == << >>
Some(v) == << v >>
IsSome(o) == o # << >>

(***************************************************************************)
(* serde_json.  A JSON document is known by its text; JsonDocs lists the   *)
(* documents the model's requests carry with the fields the router reads.  *)
(* Every other body text the model produces (a proper prefix of a listed   *)
(* document, a document followed by more bytes, the empty text) is not     *)
(* JSON, so looking the text up in the list is what the parser does on it. *)
(***************************************************************************)
Absent == [t |-> "absent", s |-> "", b |-> FALSE]
JStr(x) == [t |-> "string", s |-> x, b |-> FALSE]
JBool(x) == [t |-> "bool", s |-> "", b |-> x]
JNum == [t |-> "number", s |-> "", b |-> FALSE]

JDoc(text, isObject, title, completed) ==
    [text |-> text, object |-> isObject, title |-> title, completed |-> completed]

JsonDocs ==
    { JDoc("{\"title\":\"a\"}", TRUE, JStr("a"), Absent),
      JDoc("{\"title\":\" b \"}", TRUE, JStr(" b "), Absent),
      JDoc("{\"title\":\" \"}", TRUE, JStr(" "), Absent),
      JDoc("{\"title\":1}", TRUE, JNum, Absent),
      JDoc("{}", TRUE, Absent, Absent),
      JDoc("[]", FALSE, Absent, Absent),
      JDoc("{\"completed\":true}", TRUE, Absent, JBool(TRUE)),
      JDoc("{\"completed\":false}", TRUE, Absent, JBool(FALSE)),
      JDoc("{\"completed\":\"yes\"}", TRUE, Absent, JStr("yes")),
      JDoc("{\"title\":\" b \",\"completed\":true}", TRUE, JStr(" b "), JBool(TRUE)),
      JDoc("{\"title\":\"a\",\"completed\":false}", TRUE, JStr("a"), JBool(FALSE)),
      JDoc("{\"title\":\" \",\"completed\":true}", TRUE, JStr(" "), JBool(TRUE)),
      JDoc("{\"title\":\"a\",\"completed\":\"yes\"}", TRUE, JStr("a"), JStr("yes")),
      JDoc("{\"title\":1,\"completed\":true}", TRUE, JNum, JBool(TRUE)) }

\* serde_json::from_str::<Value>: Some(document) or None for Err
FromStrValue(body) ==
    IF \E d \in JsonDocs : d.text = body
    THEN Some(CHOOSE d \in JsonDocs : d.text = body)
    ELSE None

\* json.get("title").and_then(|v| v.as_str())
GetTitleStr(json) ==
    IF json.object /\ json.title.t = "string" THEN Some(json.title.s) ELSE None

\* serde_json::from_str::<UpdateTodoRequest>: both fields are Options, so a
\* field may be absent, but a present field must have its type
FromStrUpdateTodoRequest(body) ==
    LET v == FromStrValue(body) IN
    IF /\ IsSome(v)
       /\ v[1].object
       /\ v[1].title.t \in {"absent", "string"}
       /\ v[1].completed.t \in {"absent", "bool"}
    THEN Some([title |-> IF v[1].title.t = "string" THEN Some(v[1].title.s) ELSE None,
               completed |-> IF v[1].completed.t = "bool" THEN Some(v[1].completed.b) ELSE None])
    ELSE None

\* serde_json::to_string(&Todo)
TodoJson(todo) ==
    "{\"id\":" \o ToString(todo.id) \o ",\"title\":\"" \o todo.title
        \o "\",\"completed\":" \o (IF todo.completed THEN "true" ELSE "false") \o "}"

(***************************************************************************)
(* Validation functions.  << >> is Ok(()), << e >> is Err(e).              *)
(***************************************************************************)
\* mutant: a blank title passes
validate_todo_title_Lenient(title) == None

validate_todo_title(title) ==
    IF Trim(title) = "" THEN Some("Title cannot be empty.") ELSE None

\* mutant: an absent completed passes
validate_todo_completed_Lenient(completed) == None

validate_todo_completed(completed) ==
    IF IsSome(completed) THEN None
    ELSE Some("The 'completed' field must be of type bool.")

(***************************************************************************)
(* process_request up to the call of a Store function.  The result is a    *)
(* Route: a rejection (status, body, and the message given to log_error,   *)
(* if any), a panic, or the Store function to call with its arguments.     *)
(***************************************************************************)
BadRequest == "400 Bad Request"
NotFound == "404 Not Found"
MethodNotAllowed == "405 Method Not Allowed"
VersionNotSupported == "505 HTTP Version Not Supported"
Ok200 == "200 OK"
Created201 == "201 Created"

Route(kind, status, body, log, fn, id, title, completed) ==
    [kind |-> kind, status |-> status, body |-> body, log |-> log,
     fn |-> fn, id |-> id, title |-> title, completed |-> completed]

\* a rejection that reports its message to log_error
Reject(status, error) == Route("reject", status, error, Some(error), "", 0, None, None)

\* a rejection whose log line differs from its body, or is missing
RejectLogging(status, error, log) == Route("reject", status, error, log, "", 0, None, None)

Panic == Route("panic", "", "", None, "", 0, None, None)

Call(fn, id, title, completed) == Route("call", "", "", None, fn, id, title, completed)

\* the header loop: the index of the first body line, the Content-Length seen
\* last (-1 for None), and whether a line without ": " was met
RECURSIVE ScanHeaders(_, _, _)
ScanHeaders(lines, i, cl) ==
    IF i > Len(lines) THEN [bad |-> FALSE, cl |-> cl, rest |-> i]
    ELSE IF lines[i] = "" THEN [bad |-> FALSE, cl |-> cl, rest |-> i + 1]
    ELSE LET kv == SplitOnce(lines[i], ": ") IN
         IF kv = << >> THEN [bad |-> TRUE, cl |-> cl, rest |-> i]
         ELSE ScanHeaders(lines, i + 1,
                  IF EqIgnoreAsciiCase(kv[1], "Content-Length")
                  THEN (IF ParseUsize(kv[2]) = -1 THEN 0 ELSE ParseUsize(kv[2]))
                  ELSE cl)

RouteGet(path) ==
    IF path = "/todos" THEN Call("process_request_get_todos", 0, None, None)
    ELSE IF StartsWith(path, "/todos/")
    THEN (IF ParseUsize(StripPrefix(path, "/todos/")) # -1
          THEN Call("get_todo", ParseUsize(StripPrefix(path, "/todos/")), None, None)
          ELSE Reject(BadRequest, "Invalid ID."))
    ELSE Reject(NotFound, "Endpoint not found.")

RoutePost(path, body) ==
    IF path = "/todos"
    THEN LET json == FromStrValue(body) IN
         IF IsSome(json)
         THEN LET title == GetTitleStr(json[1]) IN
              IF IsSome(title)
              THEN (IF IsSome(validate_todo_title(title[1]))
                    THEN Reject(BadRequest, validate_todo_title(title[1])[1])
                    ELSE Call("create_todo", 0, Some(title[1]), None))
              ELSE Reject(BadRequest, "Title is required.")
         ELSE Reject(BadRequest, "Invalid JSON format.")
    ELSE Reject(NotFound, "Endpoint not found.")

RoutePut(path, body) ==
    IF StartsWith(path, "/todos/")
    THEN (IF ParseUsize(StripPrefix(path, "/todos/")) # -1
          THEN LET update_req == FromStrUpdateTodoRequest(body) IN
               IF IsSome(update_req)
               THEN (IF IsSome(update_req[1].title)
                        /\ IsSome(validate_todo_title(update_req[1].title[1]))
                     THEN Reject(BadRequest, validate_todo_title(update_req[1].title[1])[1])
                     ELSE IF IsSome(validate_todo_completed(update_req[1].completed))
                     THEN Reject(BadRequest, validate_todo_completed(update_req[1].completed)[1])
                     ELSE Call("update_todo", ParseUsize(StripPrefix(path, "/todos/")),
                               update_req[1].title, update_req[1].completed))
               ELSE RejectLogging(BadRequest, "JSON deserialization error occurred.",
                                  Some("Error details: " \o "serde_json::Error"))
          ELSE Reject(BadRequest, "Invalid ID."))
    ELSE Reject(NotFound, "Endpoint not found.")

\* mutant: every path is taken for /todos/1
RouteDelete_AnyPath(path) == Call("delete_todo", 1, None, None)

RouteDelete(path) ==
    IF StartsWith(path, "/todos/")
    THEN (IF ParseUsize(StripPrefix(path, "/todos/")) # -1
          THEN Call("delete_todo", ParseUsize(StripPrefix(path, "/todos/")), None, None)
          ELSE Reject(BadRequest, "Invalid ID."))
    ELSE Reject(NotFound, "Endpoint not found.")

\* &body[..content_length.unwrap_or(0)]: the slice panics when the length
\* exceeds the body
BodySliceInRange(body, cl) == (IF cl = -1 THEN 0 ELSE cl) <= Len(body)

\* mutant: without a Content-Length everything after the blank line is the body
BodySlice_Whole(body, cl) == IF cl = -1 THEN body ELSE SubSeq(body, 1, cl)

BodySlice(body, cl) == SubSeq(body, 1, IF cl = -1 THEN 0 ELSE cl)

\* mutant: the method is matched without regard to case
MethodIs_IgnoreCase(method, name) == EqIgnoreAsciiCase(method, name)

\* an arm of `match method`: the method text is compared as it is
MethodIs(method, name) == method = name

\* mutant: every version text is accepted
SupportedVersion_Any(version) == TRUE

\* version != "HTTP/1.1" && version != "HTTP/1.0" && version != "HTTP/2.0"
SupportedVersion(version) == version \in {"HTTP/1.1", "HTTP/1.0", "HTTP/2.0"}

ParseRequest(request) ==
    LET lines == Lines(request) IN
    IF lines = << >>
    THEN RejectLogging(BadRequest, "Invalid request.", None)
    ELSE LET parts == SplitWhitespace(lines[1]) IN
         IF Len(parts) # 3 THEN Reject(BadRequest, "Invalid request line.")
         ELSE IF ~SupportedVersion(parts[3])
         THEN Reject(VersionNotSupported, "HTTP version is not supported.")
         ELSE LET h == ScanHeaders(lines, 2, -1) IN
              IF h.bad THEN Reject(BadRequest, "Invalid header format.")
              ELSE LET whole == Join(lines, h.rest) IN
                   IF ~BodySliceInRange(whole, h.cl) THEN Panic
                   ELSE LET body == BodySlice(whole, h.cl) IN
                        CASE MethodIs(parts[1], "GET") -> RouteGet(parts[2])
                          [] MethodIs(parts[1], "POST") -> RoutePost(parts[2], body)
                          [] MethodIs(parts[1], "PUT") -> RoutePut(parts[2], body)
                          [] MethodIs(parts[1], "DELETE") -> RouteDelete(parts[2])
                          [] OTHER -> Reject(MethodNotAllowed, "Method is not allowed.")


(***************************************************************************)
(* The Store functions, each as it runs from db.lock() to its return.      *)
(* db maps a key (the decimal text of an id) to a Todo.  A result is the   *)
(* response (status, body; for the list, the serialized records as a set,  *)
(* since HashMap::values has no fixed order), the store afterwards and the *)
(* message given to log_error, if any.                                     *)
(***************************************************************************)
Out(status, body, items) == [status |-> status, body |-> body, items |-> items]

NoOut == Out("", "", {})

Todo(id, title, completed) == [id |-> id, title |-> title, completed |-> completed]

StoreResult(out, db, log) == [out |-> out, db |-> db, log |-> log]

TodoNotFound(db) ==
    StoreResult(Out(NotFound, "Todo not found.", {}), db, Some("Todo not found."))

\* HashMap::new()
EmptyDb == [k \in {} |-> Todo(0, "", FALSE)]

\* id.to_string()
Key(id) == ToString(id)

Insert(db, key, todo) == [k \in DOMAIN db \cup {key} |-> IF k = key THEN todo ELSE db[k]]

\* mutant: nothing is removed
Remove_Nothing(db, key) == db

Remove(db, key) == [k \in DOMAIN db \ {key} |-> db[k]]

process_request_get_todos(db) ==
    StoreResult(Out(Ok200, "[..]", {TodoJson(db[k]) : k \in DOMAIN db}), db, None)

\* mutant: the record read is taken out of the store
get_todo_Take(id, db) ==
    IF Key(id) \in DOMAIN db
    THEN StoreResult(Out(Ok200, TodoJson(db[Key(id)]), {}), Remove(db, Key(id)), None)
    ELSE TodoNotFound(db)

get_todo(id, db) ==
    IF Key(id) \in DOMAIN db
    THEN StoreResult(Out(Ok200, TodoJson(db[Key(id)]), {}), db, None)
    ELSE TodoNotFound(db)

\* mutant: the id after the highest id stored
NewId_AfterHighest(db) ==
    LET ids == {db[k].id : k \in DOMAIN db} IN
    IF ids = {} THEN 1 ELSE (CHOOSE m \in ids : \A i \in ids : i <= m) + 1

\* let id = db.len() + 1
NewId(db) == Cardinality(DOMAIN db) + 1

\* mutant: the title is trimmed before it is stored
InsertTodo_Trimmed(id, title, db) ==
    LET todo == Todo(id, Trim(title), FALSE) IN
    StoreResult(Out(Created201, TodoJson(todo), {}), Insert(db, Key(id), todo), None)

\* the Todo is built, inserted under id.to_string() and serialized
InsertTodo(id, title, db) ==
    LET todo == Todo(id, title, FALSE) IN
    StoreResult(Out(Created201, TodoJson(todo), {}), Insert(db, Key(id), todo), None)

create_todo(title, db) == InsertTodo(NewId(db), title, db)

\* mutant: a field the request leaves out is reset
ApplyUpdate_Reset(id, title, completed, db) ==
    LET old == db[Key(id)]
        todo == Todo(old.id,
                     IF IsSome(title) THEN title[1] ELSE "",
                     IF IsSome(completed) THEN completed[1] ELSE FALSE)
    IN StoreResult(Out(Ok200, TodoJson(todo), {}), Insert(db, Key(id), todo), None)

\* the body of `if let Some(todo) = db.get_mut(..)`
ApplyUpdate(id, title, completed, db) ==
    LET old == db[Key(id)]
        todo == Todo(old.id,
                     IF IsSome(title) THEN title[1] ELSE old.title,
                     IF IsSome(completed) THEN completed[1] ELSE old.completed)
    IN StoreResult(Out(Ok200, TodoJson(todo), {}), Insert(db, Key(id), todo), None)

\* mutant: an absent id is inserted instead of reported
update_todo_Upsert(id, title, completed, db) ==
    IF Key(id) \in DOMAIN db THEN ApplyUpdate(id, title, completed, db)
    ELSE InsertTodo(id, IF IsSome(title) THEN title[1] ELSE "", db)

update_todo(id, title, completed, db) ==
    IF Key(id) \in DOMAIN db THEN ApplyUpdate(id, title, completed, db) ELSE TodoNotFound(db)

delete_todo(id, db) ==
    IF Key(id) \in DOMAIN db
    THEN StoreResult(Out(Ok200, "Todo has been deleted.", {}), Remove(db, Key(id)), None)
    ELSE TodoNotFound(db)

\* the Store function a Route calls, run without interruption
CallStore(route, db) ==
    CASE route.fn = "process_request_get_todos" -> process_request_get_todos(db)
      [] route.fn = "get_todo" -> get_todo(route.id, db)
      [] route.fn = "create_todo" -> create_todo(route.title[1], db)
      [] route.fn = "update_todo" -> update_todo(route.id, route.title, route.completed, db)
      [] route.fn = "delete_todo" -> delete_todo(route.id, db)

(***************************************************************************)
(* The requests a connection may deliver.                                  *)
(***************************************************************************)
RequestText(method, path, version, headers, body) ==
    method \o " " \o path \o " " \o version \o CRLF \o headers \o CRLF \o body

ContentLength(n) == "Content-Length: " \o ToString(n) \o CRLF

\* a request as the tests build it: Content-Length is the length of the body
WithBody(method, path, body) ==
    RequestText(method, path, "HTTP/1.1", ContentLength(Len(body)), body)

NoBody(method, path) == RequestText(method, path, "HTTP/1.1", "", "")

\* the titles of the model's valid creates: one has blanks around it
Titles == {"a", " b "}

\* POST /todos with the body {"title":"<title>"} and its exact Content-Length
CreateRequest(title) == WithBody("POST", "/todos", "{\"title\":\"" \o title \o "\"}")

ValidRequests ==
    { NoBody("GET", "/todos"), NoBody("GET", "/todos/1"), NoBody("GET", "/todos/2"),
      NoBody("DELETE", "/todos/1"), NoBody("DELETE", "/todos/2"),
      CreateRequest("a"), CreateRequest(" b "),
      WithBody("PUT", "/todos/1", "{\"completed\":true}"),
      WithBody("PUT", "/todos/1", "{\"title\":\" b \",\"completed\":true}"),
      WithBody("PUT", "/todos/2", "{\"title\":\"a\",\"completed\":false}") }

RejectedRequests ==
    { "", "GET /todos" \o CRLF \o CRLF,
      RequestText("GET", "/todos", "HTTP/3.0", "", ""),
      RequestText("GET", "/todos", "HTTP/1.1", "Host" \o CRLF, ""),
      NoBody("PATCH", "/todos/1"), NoBody("GET", "/items"), NoBody("DELETE", "/todos/x"),
      WithBody("POST", "/todos", "{}"),
      WithBody("POST", "/todos", "{\"title\":\" \"}"),
      RequestText("POST", "/todos", "HTTP/1.1", "", "{\"title\":\"a\"}"),
      WithBody("PUT", "/todos/1", "{\"completed\":\"yes\"}"),
      WithBody("PUT", "/todos/1", "{}") }

\* the declared Content-Length exceeds the bytes after the blank line
OverlongRequests ==
    { RequestText("POST", "/todos", "HTTP/1.1", ContentLength(50), "{\"title\":\"a\"}"),
      RequestText("GET", "/todos", "HTTP/1.1", ContentLength(1), "") }

\* first lines that do not split into three tokens (the first has no line)
MalformedLines ==
    { "GET", "GET /todos", "GET /todos HTTP/1.1 extra", "PATCH /items HTTP/3.0 extra",
      "   " }

BadLineRequests ==
    { "", CRLF \o CRLF }
    \cup { line \o CRLF \o CRLF : line \in MalformedLines }
    \cup { "POST /todos" \o CRLF \o ContentLength(13) \o CRLF \o "{\"title\":\"a\"}" }

UnsupportedVersions == { "HTTP/3.0", "http/1.1" }

\* three-token request lines with an unsupported version; the method, the
\* path, the headers and the body are valid in some and invalid in others
BadVersionRequests ==
    { RequestText(x[1], x[2], v, x[3], x[4]) :
        v \in UnsupportedVersions,
        x \in { << "GET", "/todos", "", "" >>,
                << "PATCH", "/items", "Host" \o CRLF, "" >>,
                << "POST", "/todos", ContentLength(50), "{\"title\":\"a\"}" >>,
                << "PUT", "/todos/x", ContentLength(2), "{}" >> } }

\* methods process_request has no arm for (the match is case-sensitive)
OtherMethods == { "PATCH", "get" }

OtherMethodRequests ==
    { RequestText(m, p, "HTTP/1.1", "Host: x" \o CRLF, "") :
        m \in OtherMethods, p \in { "/todos", "/todos/1", "/items" } }
    \cup { WithBody("PATCH", "/todos/1", "{\"completed\":true}") }

\* another method, well-formed headers, and a Content-Length beyond the body
OtherMethodOverlong == { RequestText("PATCH", "/todos", "HTTP/1.1", ContentLength(5), "") }

\* paths that match no route of their method
UnroutedRequests ==
    { NoBody("GET", "/items"), NoBody("GET", "/todosx"), NoBody("GET", "/"),
      WithBody("POST", "/todos/1", "{\"title\":\"a\"}"),
      WithBody("POST", "/items", "{\"title\":\"a\"}"),
      WithBody("PUT", "/todos", "{\"completed\":true}"),
      NoBody("DELETE", "/todos"), NoBody("DELETE", "/items") }

\* /todos/{id} with an id that usize's parse rejects
InvalidIdRequests ==
    { NoBody("GET", "/todos/x"), NoBody("GET", "/todos/"), NoBody("GET", "/todos/-1"),
      NoBody("DELETE", "/todos/x"), NoBody("DELETE", "/todos/1/x"),
      WithBody("PUT", "/todos/x", "{\"completed\":true}"),
      WithBody("PUT", "/todos/-1", "{}") }

\* POST /todos with no title, or a title that is not a string
NoTitleRequests ==
    { WithBody("POST", "/todos", "{}"), WithBody("POST", "/todos", "{\"title\":1}"),
      WithBody("POST", "/todos", "[]"),
      WithBody("POST", "/todos", "{\"completed\":true}") }

\* POST /todos with a string title that is blank after trimming
BlankTitleRequests == { WithBody("POST", "/todos", "{\"title\":\" \"}") }

\* PUT /todos/1 with a body that has no completed field
CompletedAbsentRequests ==
    { WithBody("PUT", "/todos/1", "{}"), WithBody("PUT", "/todos/1", "{\"title\":\"a\"}") }

\* PUT /todos/1 with a completed field that is not a boolean
CompletedNotBoolRequests ==
    { WithBody("PUT", "/todos/1", "{\"completed\":\"yes\"}"),
      WithBody("PUT", "/todos/1", "{\"title\":\"a\",\"completed\":\"yes\"}") }

\* POST /todos with a valid create as the bytes after the blank line, and no
\* Content-Length header or one whose value is no number
NoLengthPosts ==
    { RequestText("POST", "/todos", "HTTP/1.1", h, "{\"title\":\"a\"}") :
        h \in { "", "Host: x" \o CRLF, "Content-Length: abc" \o CRLF,
                "Content-Length: -1" \o CRLF } }

\* PUT /todos/1 with a valid update as the bytes after the blank line, and no
\* usable Content-Length
NoLengthPuts ==
    { RequestText("PUT", "/todos/1", "HTTP/1.1", h, "{\"completed\":true}") :
        h \in { "", "Content-Length: 1x" \o CRLF } }

\* PUT /todos/1 with a title that is blank after trimming
BlankTitleUpdates == { WithBody("PUT", "/todos/1", "{\"title\":\" \",\"completed\":true}") }

\* let mut buffer = [0; 1024]
BufferSize == 1024

\* n copies of s
RECURSIVE Repeat(_, _)
Repeat(s, n) ==
    IF n = 0 THEN ""
    ELSE LET half == Repeat(s, n \div 2) IN
         IF n % 2 = 0 THEN half \o half ELSE half \o half \o s

\* POST /todos with a header line that alone fills the buffer; what follows
\* it would make the request a valid create, or an invalid one
PaddedRequests ==
    { "POST /todos HTTP/1.1" \o CRLF \o "X-Pad: " \o Repeat("a", BufferSize) \o CRLF \o tail :
        tail \in { ContentLength(13) \o CRLF \o "{\"title\":\"a\"}",
                   "Host" \o CRLF \o CRLF } }

\* a create whose title runs beyond the buffer, with its exact Content-Length
LongBodyRequests ==
    { CreateRequest(Repeat("a", BufferSize)) }

LongRequests == PaddedRequests \cup LongBodyRequests

Requests ==
    ValidRequests \cup RejectedRequests \cup OverlongRequests
        \cup NoLengthPosts \cup NoLengthPuts \cup BlankTitleUpdates \cup LongRequests
        \cup BadLineRequests \cup BadVersionRequests
        \cup OtherMethodRequests \cup OtherMethodOverlong
        \cup UnroutedRequests \cup InvalidIdRequests
        \cup NoTitleRequests \cup BlankTitleRequests
        \cup CompletedAbsentRequests \cup CompletedNotBoolRequests

\* the requests the connections of the pool's specification deliver: every
\* Store function, a rejected request and an overlong Content-Length
PoolRequests ==
    { NoBody("GET", "/todos"), NoBody("GET", "/todos/1"), NoBody("DELETE", "/todos/1"),
      CreateRequest("a"), CreateRequest(" b "),
      WithBody("PUT", "/todos/1", "{\"title\":\" b \",\"completed\":true}"),
      NoBody("PATCH", "/todos/1"),
      RequestText("POST", "/todos", "HTTP/1.1", ContentLength(50), "{\"title\":\"a\"}") }

\* mutant: the whole request is read, whatever its length
Chunk_Whole(sent) == sent

\* stream.read(&mut buffer) and &buffer[..bytes_read]: of the bytes the client
\* sent, at most the first BufferSize
Chunk(sent) == SubSeq(sent, 1, IF Len(sent) < BufferSize THEN Len(sent) ELSE BufferSize)

\* what the one read of a connection delivers, for each request sent
Chunked == [sent \in Requests |-> Chunk(sent)]

Received == {Chunked[sent] : sent \in Requests}

\* process_request's parse of each text a read can deliver
Parsed == [r \in Received |-> ParseRequest(r)]

(***************************************************************************)
(* State.                                                                  *)
(***************************************************************************)
VARIABLES
    mainPc,     \* main: "new" (before ThreadPool::new), "serve" (the accept
                \* loop), "panic_new", "panic_send" (the process has exited);
                \* "api", "panic_api" for a thread that calls the Store
                \* functions itself
    size,       \* the argument of ThreadPool::new
    workers,    \* worker id -> the worker thread's state
    queue,      \* the mpsc channel: the jobs sent and not yet received
    rxLock,     \* Mutex<Receiver>: None or Some(worker holding it)
    dbLock,     \* the Store's Mutex: None or Some(worker holding it)
    dbPoisoned, \* a thread panicked while holding the Store's Mutex
    db,         \* HashMap<String, Todo>
    sinkOk,     \* error.log can be opened and appended to
    nextJob,    \* the number of jobs main has submitted
    jobs,       \* per job: how far its connection got, and how often it ran
    history     \* the Store calls that returned, in the order they returned,
                \* each with the store it left

vars == << mainPc, size, workers, queue, rxLock, dbLock, dbPoisoned, db, sinkOk,
           nextJob, jobs, history >>

JobIds == 1..MaxJobs

\* a connection main has not accepted yet: how far its job got, how often
\* it was received, and the reads and writes made on its stream
NewJob == [state |-> "unsent", runs |-> 0, reads |-> 0, readOk |-> FALSE, writes |-> 0]

NewWorker ==
    [pc |-> "lock_rx", job |-> 0, req |-> "", route |-> Panic, id |-> 0,
     out |-> NoOut, logged |-> None, cause |-> ""]

Alive(w) == workers[w].pc # "dead"

\* main.rs: the store is empty, no pool exists yet
Init ==
    /\ mainPc = "new"
    /\ size \in 0..MaxWorkers
    /\ workers = << >>
    /\ queue = << >>
    /\ rxLock = None
    /\ dbLock = None
    /\ dbPoisoned = FALSE
    /\ db = EmptyDb
    /\ sinkOk = TRUE
    /\ nextJob = 0
    /\ jobs = [j \in JobIds |-> NewJob]
    /\ history = << >>


(***************************************************************************)
(* main and the ThreadPool.                                                *)
(***************************************************************************)
\* mutant: the assertion lets size 0 through
PoolSizeOk_NoCheck(n) == n >= 0

\* assert!(size > 0, ..)
PoolSizeOk(n) == n > 0

\* for id in 0..size
WorkerIds(n) == 0..(n - 1)

\* ThreadPool::new(size): the assertion, then one Worker::new per id, all
\* given a clone of the one Arc<Mutex<Receiver>>
ThreadPoolNew ==
    /\ mainPc = "new"
    /\ IF PoolSizeOk(size)
       THEN /\ workers' = [w \in WorkerIds(size) |-> NewWorker]
            /\ mainPc' = "serve"
       ELSE /\ workers' = workers
            /\ mainPc' = "panic_new"
    /\ UNCHANGED << size, queue, rxLock, dbLock, dbPoisoned, db, sinkOk, nextJob,
                    jobs, history >>

\* the Receiver lives in the Arc the worker closures hold: it is dropped when
\* the last worker thread has unwound
ReceiverAlive == \E w \in DOMAIN workers : Alive(w)

\* ThreadPool::execute, called by main for each accepted connection:
\* self.sender.send(job).unwrap() fails when the Receiver is gone
Execute ==
    /\ mainPc = "serve"
    /\ nextJob < MaxJobs
    /\ IF ReceiverAlive
       THEN /\ queue' = Append(queue, nextJob + 1)
            /\ nextJob' = nextJob + 1
            /\ jobs' = [jobs EXCEPT ![nextJob + 1].state = "queued"]
            /\ mainPc' = mainPc
       ELSE /\ mainPc' = "panic_send"
            /\ UNCHANGED << queue, nextJob, jobs >>
    /\ UNCHANGED << size, workers, rxLock, dbLock, dbPoisoned, db, sinkOk, history >>

(***************************************************************************)
(* The worker loop (Worker::new).  A worker runs only while the process    *)
(* lives, that is while main has not panicked.                             *)
(***************************************************************************)
Running(w) == mainPc = "serve" /\ w \in DOMAIN workers

\* Mutex::lock blocks while another thread holds the lock
MutexFree(lock) == lock = None

\* receiver.lock().unwrap()
WorkerLock(w) ==
    /\ Running(w)
    /\ workers[w].pc = "lock_rx"
    /\ MutexFree(rxLock)
    /\ rxLock' = Some(w)
    /\ workers' = [workers EXCEPT ![w].pc = "recv"]
    /\ UNCHANGED << mainPc, size, queue, dbLock, dbPoisoned, db, sinkOk, nextJob,
                    jobs, history >>

\* mutant: the job is handed out but stays in the channel
Recv_Peek(q) == [job |-> Head(q), rest |-> q]

\* Receiver::recv on a non-empty channel: the oldest job, which leaves the channel
Recv(q) == [job |-> Head(q), rest |-> Tail(q)]

\* mutant: a worker whose job waits for its stream takes the next job
AwaitsJob_Preempt(wk) == wk.pc \in {"recv", "read"}

\* the worker is inside receiver.recv(): only there does it take a job
AwaitsJob(wk) == wk.pc = "recv"

\* mutant: the guard lives until the job has run
GuardAfterRecv_Held(w) == Some(w)

\* the MutexGuard is a local of the block `let job = { .. }`: it is dropped
\* when the block ends
GuardAfterRecv(w) == None

\* receiver.recv().unwrap() blocks until a job is there; the guard is dropped
\* at the end of the block, before the job runs
WorkerRecv(w) ==
    /\ Running(w)
    /\ AwaitsJob(workers[w])
    /\ queue # << >>
    /\ queue' = Recv(queue).rest
    /\ rxLock' = GuardAfterRecv(w)
    /\ workers' = [workers EXCEPT ![w].pc = "read", ![w].job = Recv(queue).job]
    /\ jobs' = [jobs EXCEPT ![Recv(queue).job] =
                   [@ EXCEPT !.state = "running", !.runs = @ + 1]]
    /\ UNCHANGED << mainPc, size, dbLock, dbPoisoned, db, sinkOk, nextJob, history >>

\* the thread panics: it unwinds out of the loop and ends (the request that
\* made it panic is kept for the record)
Dead(wk, cause) ==
    [NewWorker EXCEPT !.pc = "dead", !.cause = cause,
                      !.req = IF cause = "body_slice" THEN wk.req ELSE ""]

\* the job is over: back to the top of the loop
Looping(wk) == NewWorker

JobEnds(w, state) == jobs' = [jobs EXCEPT ![workers[w].job].state = state]

\* stream.read returned, with Ok or with Err
JobRead(w, ok, state) ==
    jobs' = [jobs EXCEPT ![workers[w].job] =
                [@ EXCEPT !.state = state, !.reads = @ + 1, !.readOk = ok]]

\* stream.write_all returned
JobWrite(w, state) ==
    jobs' = [jobs EXCEPT ![workers[w].job] = [@ EXCEPT !.state = state, !.writes = @ + 1]]

(***************************************************************************)
(* handle_connection and process_request, run by a worker as its job.      *)
(***************************************************************************)
\* stream.read fails: log_error, no response
ReadFails(w) ==
    /\ Running(w)
    /\ workers[w].pc = "read"
    /\ IF sinkOk
       THEN /\ workers' = [workers EXCEPT ![w] = Looping(@)]
            /\ JobRead(w, FALSE, "read_failed")
       ELSE /\ workers' = [workers EXCEPT ![w] = Dead(@, "log_error")]
            /\ JobRead(w, FALSE, "panicked")
    /\ UNCHANGED << mainPc, size, queue, rxLock, dbLock, dbPoisoned, db, sinkOk,
                    nextJob, history >>

\* stream.read delivers a request and process_request parses it: it panics
\* on the body slice, or rejects the request (log_error, then the response),
\* or goes on to call a Store function
ReadRequest(w, feed) ==
    /\ Running(w)
    /\ workers[w].pc = "read"
    /\ \E sent \in feed :
         LET r == Chunked[sent]
             route == Parsed[r]
         IN
         CASE route.kind = "panic" ->
                /\ workers' = [workers EXCEPT ![w] = Dead([@ EXCEPT !.req = r], "body_slice")]
                /\ JobRead(w, TRUE, "panicked")
           [] route.kind = "reject" ->
                IF IsSome(route.log) /\ ~sinkOk
                THEN /\ workers' = [workers EXCEPT ![w] =
                                       Dead(@, "log_error")]
                     /\ JobRead(w, TRUE, "panicked")
                ELSE /\ workers' = [workers EXCEPT ![w] =
                                       [@ EXCEPT !.pc = "write", !.req = r, !.route = route,
                                                 !.out = Out(route.status, route.body, {}),
                                                 !.logged = route.log]]
                     /\ JobRead(w, TRUE, "running")
           [] route.kind = "call" ->
                /\ workers' = [workers EXCEPT ![w] =
                                  [@ EXCEPT !.pc = "lock_db", !.req = r, !.route = route]]
                /\ JobRead(w, TRUE, "running")
    /\ UNCHANGED << mainPc, size, queue, rxLock, dbLock, dbPoisoned, db, sinkOk,
                    nextJob, history >>

\* mutant: the Store functions do not wait for the lock
DbLockFree_NoWait == TRUE

\* db.lock(): blocks while another worker is inside a Store function
DbLockFree == MutexFree(dbLock)

\* db.lock().unwrap(): a poisoned Mutex makes unwrap panic (the guard inside
\* the error is dropped again)
StoreLock(w) ==
    /\ Running(w)
    /\ workers[w].pc = "lock_db"
    /\ DbLockFree
    /\ IF dbPoisoned
       THEN /\ workers' = [workers EXCEPT ![w] = Dead(@, "poisoned")]
            /\ JobEnds(w, "panicked")
            /\ dbLock' = dbLock
       ELSE /\ workers' = [workers EXCEPT ![w].pc = "in_db"]
            /\ dbLock' = Some(w)
            /\ jobs' = jobs
    /\ UNCHANGED << mainPc, size, queue, rxLock, dbPoisoned, db, sinkOk, nextJob,
                    history >>

\* an entry of the history: the job, the call, its response and the store it left
Event(job, call, res) == [job |-> job, call |-> call, out |-> res.out, db |-> res.db]

\* mutant: the guard outlives the Store function
DbGuardAfterReturn_Held(w) == Some(w)

\* the MutexGuard is a local of the Store function: it is dropped when the
\* function returns, and also when a panic unwinds it
DbGuardAfterReturn(w) == None

\* a Store function returns res: its log_error call (made while the lock is
\* held) panics when the sink fails, which poisons the Mutex; otherwise the
\* guard is dropped and the response goes back to handle_connection
StoreReturns(w, res) ==
    IF IsSome(res.log) /\ ~sinkOk
    THEN /\ workers' = [workers EXCEPT ![w] = Dead(@, "log_error")]
         /\ JobEnds(w, "panicked")
         /\ dbPoisoned' = TRUE
         /\ dbLock' = DbGuardAfterReturn(w)
         /\ UNCHANGED << db, history >>
    ELSE /\ workers' = [workers EXCEPT ![w] =
                           [@ EXCEPT !.pc = "write", !.out = res.out, !.logged = res.log]]
         /\ db' = res.db
         /\ dbLock' = DbGuardAfterReturn(w)
         /\ history' = Append(history, Event(workers[w].job, workers[w].route, res))
         /\ UNCHANGED << jobs, dbPoisoned >>

\* the first statement of a Store function after the lock is taken
StoreEnter(w) ==
    /\ Running(w)
    /\ workers[w].pc = "in_db"
    /\ LET wk == workers[w] IN
       CASE wk.route.fn = "create_todo" ->
              /\ workers' = [workers EXCEPT ![w] = [@ EXCEPT !.pc = "insert", !.id = NewId(db)]]
              /\ UNCHANGED << jobs, dbPoisoned, dbLock, db, history >>
         [] wk.route.fn = "update_todo" /\ Key(wk.route.id) \in DOMAIN db ->
              /\ workers' = [workers EXCEPT ![w].pc = "apply"]
              /\ UNCHANGED << jobs, dbPoisoned, dbLock, db, history >>
         [] OTHER -> StoreReturns(w, CallStore(wk.route, db))
    /\ UNCHANGED << mainPc, size, queue, rxLock, sinkOk, nextJob >>

\* create_todo after `let id`, update_todo inside `if let Some(todo)`
StoreFinish(w) ==
    /\ Running(w)
    /\ workers[w].pc \in {"insert", "apply"}
    /\ LET wk == workers[w] IN
       IF wk.pc = "insert"
       THEN StoreReturns(w, InsertTodo(wk.id, wk.route.title[1], db))
       ELSE /\ Key(wk.route.id) \in DOMAIN db
            /\ StoreReturns(w, ApplyUpdate(wk.route.id, wk.route.title, wk.route.completed, db))
    /\ UNCHANGED << mainPc, size, queue, rxLock, sinkOk, nextJob >>

\* stream.write_all(response): a failure is logged and swallowed
WriteResponse(w) ==
    /\ Running(w)
    /\ workers[w].pc = "write"
    /\ \E ok \in BOOLEAN :
         IF ok
         THEN /\ workers' = [workers EXCEPT ![w] = Looping(@)]
              /\ JobWrite(w, "responded")
         ELSE IF sinkOk
         THEN /\ workers' = [workers EXCEPT ![w] = Looping(@)]
              /\ JobWrite(w, "write_failed")
         ELSE /\ workers' = [workers EXCEPT ![w] = Dead(@, "log_error")]
              /\ JobWrite(w, "panicked")
    /\ UNCHANGED << mainPc, size, queue, rxLock, dbLock, dbPoisoned, db, sinkOk,
                    nextJob, history >>

\* the environment: error.log becomes unwritable, or writable again
SinkChanges ==
    /\ mainPc \in {"serve", "api"}
    /\ sinkOk' = ~sinkOk
    /\ UNCHANGED << mainPc, size, workers, queue, rxLock, dbLock, dbPoisoned, db,
                    nextJob, jobs, history >>

AllWorkers == 0..MaxWorkers

Next ==
    \/ ThreadPoolNew
    \/ Execute
    \/ SinkChanges
    \/ \E w \in AllWorkers : WorkerLock(w)
    \/ \E w \in AllWorkers : WorkerRecv(w)
    \/ \E w \in AllWorkers : ReadFails(w)
    \/ \E w \in AllWorkers : ReadRequest(w, PoolRequests)
    \/ \E w \in AllWorkers : StoreLock(w)
    \/ \E w \in AllWorkers : StoreEnter(w)
    \/ \E w \in AllWorkers : StoreFinish(w)
    \/ \E w \in AllWorkers : WriteResponse(w)

Spec == Init /\ [][Next]_vars

(***************************************************************************)
(* The pool with one worker, whose connections deliver the pool's requests *)
(* and every rejected one: the requests are handled one after the other.   *)
(***************************************************************************)
OneWorkerInit == Init /\ size = 1

\* the pool's requests and every request process_request turns away
OneWorkerRequests == PoolRequests \cup (Requests \ ValidRequests)

OneWorkerNext ==
    \/ ThreadPoolNew
    \/ Execute
    \/ SinkChanges
    \/ \E w \in AllWorkers : WorkerLock(w)
    \/ \E w \in AllWorkers : WorkerRecv(w)
    \/ \E w \in AllWorkers : ReadFails(w)
    \/ \E w \in AllWorkers : ReadRequest(w, OneWorkerRequests)
    \/ \E w \in AllWorkers : StoreLock(w)
    \/ \E w \in AllWorkers : StoreEnter(w)
    \/ \E w \in AllWorkers : StoreFinish(w)
    \/ \E w \in AllWorkers : WriteResponse(w)

OneWorkerSpec == OneWorkerInit /\ [][OneWorkerNext]_vars

(***************************************************************************)
(* The Store functions called directly, as the library's public functions, *)
(* by one thread that owns the Db: no pool, no connection.                 *)
(***************************************************************************)
ApiIds == {1, 3}

\* the store after three creates: the records 1, 2 and 3
SeededDb == create_todo("a", create_todo(" b ", create_todo("a", EmptyDb).db).db).db

\* the calls the thread may make: every Store function, update_todo with
\* each combination of a present and an absent field
ApiCalls ==
    { Call("process_request_get_todos", 0, None, None) }
    \cup { Call("get_todo", id, None, None) : id \in ApiIds }
    \cup { Call("delete_todo", id, None, None) : id \in ApiIds }
    \cup { Call("create_todo", 0, Some(t), None) : t \in Titles }
    \cup { Call("update_todo", id, title, completed) :
              id \in ApiIds, title \in {None, Some("c")},
              completed \in {None, Some(TRUE), Some(FALSE)} }

ApiInit ==
    /\ mainPc = "api"
    /\ size = 0
    /\ workers = << >>
    /\ queue = << >>
    /\ rxLock = None
    /\ dbLock = None
    /\ dbPoisoned = FALSE
    /\ db \in {EmptyDb, SeededDb}
    /\ sinkOk = TRUE
    /\ nextJob = 0
    /\ jobs = [j \in JobIds |-> NewJob]
    /\ history = << >>

\* one call, from db.lock() to the return; a panic in log_error unwinds the
\* calling thread while it holds the lock
ApiCall ==
    /\ mainPc = "api"
    /\ Len(history) < MaxCalls
    /\ \E c \in ApiCalls :
         LET res == CallStore(c, db) IN
         IF IsSome(res.log) /\ ~sinkOk
         THEN /\ mainPc' = "panic_api"
              /\ dbPoisoned' = TRUE
              /\ UNCHANGED << db, history >>
         ELSE /\ db' = res.db
              /\ history' = Append(history, Event(0, c, res))
              /\ UNCHANGED << mainPc, dbPoisoned >>
    /\ UNCHANGED << size, workers, queue, rxLock, dbLock, sinkOk, nextJob, jobs >>

ApiNext == ApiCall \/ SinkChanges

ApiSpec == ApiInit /\ [][ApiNext]_vars


(***************************************************************************)
(* Definitions the properties share.                                       *)
(***************************************************************************)
\* the workers inside a Store function, between db.lock() and the return
InStore == {w \in DOMAIN workers : workers[w].pc \in {"in_db", "insert", "apply"}}

\* the store after the first n calls of the history ran one after the other
RECURSIVE ReplayDb(_, _)
ReplayDb(h, n) ==
    IF n = 0 THEN EmptyDb ELSE CallStore(h[n].call, ReplayDb(h, n - 1)).db

Events == DOMAIN history

IsCreate(e) == e.call.fn = "create_todo"

\* the create e was answered 201 with the record (id, its title, false)
AnsweredId(e, id) ==
    /\ e.out.status = Created201
    /\ e.out.body = TodoJson(Todo(id, e.call.title[1], FALSE))

(***************************************************************************)
(* C1: when the first two Store calls on the empty store are creates, run  *)
(* by workers of the pool in any interleaving, the first is answered with  *)
(* id 1 and the second with id 2 (never both with id 1), they belong to    *)
(* different jobs, and right afterwards both records are in the store.     *)
(***************************************************************************)
C1_TwoCreatesGetIds1And2 ==
    (Len(history) >= 2 /\ IsCreate(history[1]) /\ IsCreate(history[2])) =>
        /\ AnsweredId(history[1], 1)
        /\ AnsweredId(history[2], 2)
        /\ ~AnsweredId(history[2], 1)
        /\ history[1].job # history[2].job
        /\ Len(history) = 2 =>
             /\ DOMAIN db = {"1", "2"}
             /\ db["1"] = Todo(1, history[1].call.title[1], FALSE)
             /\ db["2"] = Todo(2, history[2].call.title[1], FALSE)

\* two workers hold the two answers at the same time: both POSTs were in
\* flight together
C1_Witness ==
    /\ Len(history) = 2 /\ IsCreate(history[1]) /\ IsCreate(history[2])
    /\ \E w1, w2 \in DOMAIN workers :
         /\ w1 # w2
         /\ workers[w1].pc = "write" /\ workers[w1].job = history[1].job
         /\ workers[w2].pc = "write" /\ workers[w2].job = history[2].job
         /\ workers[w1].out.body = TodoJson(Todo(1, workers[w1].route.title[1], FALSE))
         /\ workers[w2].out.body = TodoJson(Todo(2, workers[w2].route.title[1], FALSE))

(***************************************************************************)
(* C2: every job is received at most once and is held by at most one       *)
(* worker: no job leaves the channel twice, no two workers run the same    *)
(* job, and a job a worker runs is no longer in the channel.               *)
(***************************************************************************)
C2_JobsRunAtMostOnce ==
    /\ \A j \in JobIds : jobs[j].runs <= 1
    /\ \A j \in JobIds : Cardinality({w \in DOMAIN workers : workers[w].job = j}) <= 1
    /\ \A w \in DOMAIN workers :
         workers[w].job # 0 =>
            /\ jobs[workers[w].job].runs = 1
            /\ \A i \in DOMAIN queue : queue[i] # workers[w].job
    /\ \A i, k \in DOMAIN queue : i # k => queue[i] # queue[k]

\* two workers run two different jobs at the same time, a third has finished
C2_Witness ==
    /\ \E w1, w2 \in DOMAIN workers :
         /\ w1 # w2
         /\ workers[w1].pc = "write" /\ workers[w2].pc = "lock_db"
         /\ workers[w1].job # workers[w2].job
    /\ \E j \in JobIds : jobs[j].state = "responded" /\ jobs[j].runs = 1

(***************************************************************************)
(* C3: the Store calls are linearizable.  At most one worker is inside a   *)
(* Store function and it holds the lock; every call of the history         *)
(* returned what it returns when the calls run one after the other in the  *)
(* order they returned; and the store is the store that sequential run     *)
(* leaves.                                                                 *)
(***************************************************************************)
C3_StoreLinearizable ==
    /\ Cardinality(InStore) <= 1
    /\ \A w \in InStore : dbLock = Some(w)
    /\ \A n \in Events : history[n].out = CallStore(history[n].call, ReplayDb(history, n - 1)).out
    /\ db = ReplayDb(history, Len(history))

\* a worker is between create_todo's `let id` and its insert while another
\* waits for the lock, after an earlier call changed the store
C3_Witness ==
    /\ Len(history) >= 1 /\ db # EmptyDb
    /\ \E w1, w2 \in DOMAIN workers :
         /\ workers[w1].pc = "insert"
         /\ workers[w2].pc = "lock_db"

(***************************************************************************)
(* C4 (as claimed): process_request returns a response for every request   *)
(* text that was read, so no worker ever dies in the body slice.           *)
(***************************************************************************)
C4_EveryRequestReadIsAnswered ==
    \A w \in DOMAIN workers : workers[w].cause # "body_slice"

(***************************************************************************)
(* C5 (as claimed): every worker thread that was spawned is alive.         *)
(***************************************************************************)
C5_WorkersNeverTerminate ==
    \A w \in DOMAIN workers : workers[w].pc # "dead"

(***************************************************************************)
(* C6 (as claimed): execute never fails: main never panics in send.        *)
(***************************************************************************)
C6_ExecuteAlwaysSucceeds == mainPc # "panic_send"

(***************************************************************************)
(* C7: ThreadPool::new(0) panics with no worker spawned, and nothing runs  *)
(* afterwards; ThreadPool::new(N) with N > 0 spawns exactly the N workers  *)
(* 0..N-1, and every job a worker runs came through the one channel.       *)
(***************************************************************************)
C7_PoolConstruction ==
    /\ size = 0 => /\ mainPc \in {"new", "panic_new"}
                   /\ DOMAIN workers = {}
                   /\ nextJob = 0
    /\ mainPc = "panic_new" => size = 0
    /\ (size > 0 /\ mainPc # "new") =>
          /\ mainPc # "panic_new"
          /\ Cardinality(DOMAIN workers) = size
          /\ DOMAIN workers = 0..(size - 1)
    /\ \A w \in DOMAIN workers : workers[w].job # 0 => workers[w].job <= nextJob

\* a pool of two workers was built and both run a job
C7_Witness ==
    /\ size = 2 /\ mainPc = "serve"
    /\ \A w \in DOMAIN workers : workers[w].pc = "read"

\* one step of a worker on a valid create: the read and parse of the
\* request, and the return of create_todo
C8_CreateStep ==
    \A w \in DOMAIN workers : \A t \in Titles :
        /\ (workers[w].pc = "read" /\ workers'[w].req = CreateRequest(t)) =>
              /\ workers'[w].pc = "lock_db"
              /\ workers'[w].route = Call("create_todo", 0, Some(t), None)
        /\ (workers[w].req = CreateRequest(t) /\ workers[w].pc = "insert"
               /\ workers'[w].pc = "write") =>
              /\ workers'[w].out = Out(Created201, TodoJson(Todo(workers[w].id, t, FALSE)), {})
              /\ Key(workers[w].id) \in DOMAIN db'
              /\ db'[Key(workers[w].id)] = Todo(workers[w].id, t, FALSE)

(***************************************************************************)
(* C8: a worker that reads POST /todos with the body {"title":"<t>"}, t    *)
(* not blank, goes on to create_todo with exactly t, and when create_todo  *)
(* returns the response is 201 Created with the record (id, t, false),     *)
(* which is the record stored under the id; t is not trimmed.              *)
(***************************************************************************)
C8_ValidCreate == [][C8_CreateStep]_vars

\* the create of " b " was answered 201 and the record is stored untrimmed
C8_Witness ==
    \E w \in DOMAIN workers :
        /\ workers[w].pc = "write"
        /\ workers[w].req = CreateRequest(" b ")
        /\ workers[w].out = Out(Created201, "{\"id\":1,\"title\":\" b \",\"completed\":false}", {})
        /\ db = [k \in {"1"} |-> Todo(1, " b ", FALSE)]

\* a successful delete_todo(id)
IsDeleted(e, id) ==
    e.call.fn = "delete_todo" /\ e.call.id = id /\ e.out.status = Ok200

GetAfterDelete(i, k) ==
    /\ i < k
    /\ history[k].call.fn = "get_todo"
    /\ IsDeleted(history[i], history[k].call.id)
    /\ \A m \in Events : (i < m /\ m < k) =>
          ~(IsCreate(history[m]) /\ AnsweredId(history[m], history[k].call.id))

(***************************************************************************)
(* C9: in the order the Store calls returned, a get_todo(id) that follows  *)
(* a successful delete_todo(id), with no create answered with that id in   *)
(* between, returned 404 Not Found.                                        *)
(***************************************************************************)
C9_GetAfterDeleteNotFound ==
    \A i, k \in Events :
        GetAfterDelete(i, k) => history[k].out = Out(NotFound, "Todo not found.", {})

C9_Witness ==
    \E i, k \in Events :
        GetAfterDelete(i, k) /\ history[k].out.status = NotFound

\* one step of a worker inside update_todo or delete_todo whose id is absent
C10_AbsentStep ==
    \A w \in DOMAIN workers :
        (/\ workers[w].pc = "in_db"
         /\ workers[w].route.fn \in {"update_todo", "delete_todo"}
         /\ Key(workers[w].route.id) \notin DOMAIN db
         /\ workers'[w] # workers[w]) =>
            /\ db' = db
            /\ workers'[w].pc \in {"write", "dead"}
            /\ workers'[w].pc = "write" =>
                  workers'[w].out = Out(NotFound, "Todo not found.", {})

C11_UpdateStep ==
    history' # history =>
        LET e == history'[Len(history')]
            k == Key(e.call.id)
        IN (e.call.fn = "update_todo" /\ e.out.status = Ok200) =>
              /\ k \in DOMAIN db
              /\ DOMAIN db' = DOMAIN db
              /\ \A j \in DOMAIN db \ {k} : db'[j] = db[j]
              /\ db'[k].id = db[k].id
              /\ db'[k].title =
                    IF IsSome(e.call.title) THEN e.call.title[1] ELSE db[k].title
              /\ db'[k].completed =
                    IF IsSome(e.call.completed) THEN e.call.completed[1] ELSE db[k].completed
              /\ e.out.body = TodoJson(db'[k])

(***************************************************************************)
(* C11: update_todo(id, title, completed) on a stored record changes only  *)
(* the fields it is given: with no title the stored title stays, with no   *)
(* completed the stored completed stays, the id never changes, no other    *)
(* record changes, and the response is the record as it is stored.         *)
(***************************************************************************)
C11_PartialUpdate == [][C11_UpdateStep]_vars

\* completed was set to true by an update without title, then the title was
\* replaced by an update without completed: both fields show it
C11_Witness ==
    /\ Len(history) = 3
    /\ history[2].call = Call("update_todo", 1, None, Some(TRUE))
    /\ history[2].out.status = Ok200
    /\ history[2].db["1"].title \in Titles
    /\ history[3].call = Call("update_todo", 1, Some("c"), None)
    /\ history[3].out.status = Ok200
    /\ db = [k \in {"1"} |-> Todo(1, "c", TRUE)]

(***************************************************************************)
(* Definitions the properties about single requests share.                 *)
(***************************************************************************)
\* worker w read the request r and process_request has parsed it: it holds
\* the response, or is on its way through a Store function, or has panicked
\* in the body slice
Delivered(w, r) ==
    /\ workers[w].req = r
    /\ \/ workers[w].pc \in {"lock_db", "in_db", "insert", "apply", "write"}
       \/ workers[w].cause = "body_slice"

\* the job worker w runs has made no Store call
NoStoreCall(w) == \A n \in Events : history[n].job # workers[w].job

\* the store the last Store call left
StoreLeft == IF history = << >> THEN EmptyDb ELSE history[Len(history)].db

\* worker w holds a response with this status for a request that was turned
\* away before any Store function: the store is as the last call left it
RejectedWith(w, status) ==
    /\ workers[w].pc = "write"
    /\ workers[w].out.status = status
    /\ workers[w].out.items = {}
    /\ NoStoreCall(w)
    /\ db = StoreLeft

C13_NotBoolAnsweredInvalidJson ==
    \A w \in DOMAIN workers :
        \A r \in CompletedNotBoolRequests :
            (Delivered(w, r) /\ "1" \in DOMAIN db) =>
                /\ RejectedWith(w, BadRequest)
                /\ workers[w].out.body = "Invalid JSON format."

(***************************************************************************)
(* C14: a request with no line, or whose first line does not split into    *)
(* three tokens, is answered 400 Bad Request; a request whose first line   *)
(* has three tokens and an unsupported version is answered 505 HTTP        *)
(* Version Not Supported whether or not its method, path, headers and body *)
(* are valid; neither makes a Store call, and the store stays as it was.   *)
(***************************************************************************)
C14_LineAndVersion ==
    \A w \in DOMAIN workers :
        /\ \A r \in BadLineRequests :
              Delivered(w, r) => RejectedWith(w, BadRequest)
        /\ \A r \in BadVersionRequests :
              Delivered(w, r) =>
                  /\ RejectedWith(w, VersionNotSupported)
                  /\ workers[w].out.body = "HTTP version is not supported."

\* a POST with an unsupported version and a Content-Length beyond its body
\* was answered 505 while a record is stored
C14_Witness ==
    \E w \in DOMAIN workers :
        /\ workers[w].req = RequestText("POST", "/todos", "HTTP/3.0", ContentLength(50),
                                        "{\"title\":\"a\"}")
        /\ RejectedWith(w, VersionNotSupported)
        /\ db # EmptyDb

\* the call e changed or removed the record id, or created it
Mutates(e, id) ==
    \/ e.call.fn \in {"update_todo", "delete_todo"} /\ e.call.id = id /\ e.out.status = Ok200
    \/ IsCreate(e) /\ AnsweredId(e, id)

\* the store a call of the history found: the one the call before it left
StoreBefore(n) == IF n = 1 THEN EmptyDb ELSE history[n - 1].db

\* two get_todo calls of the same id with no mutation of that record between
RepeatedGet(i, k) ==
    /\ i < k
    /\ history[i].call.fn = "get_todo"
    /\ history[k].call.fn = "get_todo"
    /\ history[i].call.id = history[k].call.id
    /\ \A m \in Events : (i < m /\ m < k) => ~Mutates(history[m], history[i].call.id)

(***************************************************************************)
(* C15: GET /todos/{id} is idempotent.  In the order the Store calls       *)
(* returned, two get_todo(id) calls with no mutation of that record        *)
(* between them returned the same status and the same body, and every      *)
(* get_todo left the store exactly as it found it.                         *)
(***************************************************************************)
C15_GetIdempotent ==
    /\ \A i, k \in Events : RepeatedGet(i, k) => history[i].out = history[k].out
    /\ \A n \in Events : history[n].call.fn = "get_todo" => history[n].db = StoreBefore(n)

\* record 1 was created and then read twice, by different jobs: both reads
\* returned it and the store still holds it
C15_Witness ==
    /\ Len(history) = 3
    /\ IsCreate(history[1])
    /\ RepeatedGet(2, 3)
    /\ history[2].job # history[3].job
    /\ history[2].out.status = Ok200
    /\ history[3].out.body = TodoJson(db["1"])

(***************************************************************************)
(* C16: a request with a three-token request line, a supported version,    *)
(* well-formed headers (a Content-Length, if any, that is the length of    *)
(* the body) and a method other than GET, POST, PUT and DELETE is answered *)
(* 405 Method Not Allowed whatever its path, makes no Store call, and      *)
(* leaves the store as it was.                                             *)
(***************************************************************************)
C16_OtherMethodNotAllowed ==
    \A w \in DOMAIN workers :
        \A r \in OtherMethodRequests :
            Delivered(w, r) =>
                /\ RejectedWith(w, MethodNotAllowed)
                /\ workers[w].out.body = "Method is not allowed."

\* a PATCH of a stored record, with a body that would be a valid update, was
\* answered 405 and the record is as it was created
C16_Witness ==
    \E w \in DOMAIN workers :
        /\ workers[w].req = WithBody("PATCH", "/todos/1", "{\"completed\":true}")
        /\ RejectedWith(w, MethodNotAllowed)
        /\ db = [k \in {"1"} |-> Todo(1, "a", FALSE)]

(***************************************************************************)
(* C17: for GET, POST, PUT and DELETE, a path that matches none of the     *)
(* method's routes is answered 404 Not Found, and a /todos/{id} path whose *)
(* id does not parse as a non-negative integer is answered 400 Bad         *)
(* Request; neither makes a Store call (requests otherwise well-formed:    *)
(* three tokens, supported version, Content-Length equal to the body).     *)
(***************************************************************************)
C17_UnroutedAndInvalidId ==
    \A w \in DOMAIN workers :
        /\ \A r \in UnroutedRequests :
              Delivered(w, r) =>
                  /\ RejectedWith(w, NotFound)
                  /\ workers[w].out.body = "Endpoint not found."
        /\ \A r \in InvalidIdRequests :
              Delivered(w, r) =>
                  /\ RejectedWith(w, BadRequest)
                  /\ workers[w].out.body = "Invalid ID."

\* DELETE /todos, which names no record, was answered 404 while a record is
\* stored
C17_Witness ==
    \E w \in DOMAIN workers :
        /\ workers[w].req = NoBody("DELETE", "/todos")
        /\ RejectedWith(w, NotFound)
        /\ db # EmptyDb

Rejections == {BadRequest, NotFound, MethodNotAllowed, VersionNotSupported}

(***************************************************************************)
(* C19 (as claimed): every response with a status 400, 404, 405 or 505 was *)
(* reported to log_error with the very message that is the response body.  *)
(***************************************************************************)
C19_RejectionsLogTheirBody ==
    \A w \in DOMAIN workers :
        (workers[w].pc = "write" /\ workers[w].out.status \in Rejections) =>
            workers[w].logged = Some(workers[w].out.body)

(***************************************************************************)
(* C20 (as claimed): a failure of the diagnostics sink never aborts        *)
(* request processing: no worker ends in log_error, the Store's lock is    *)
(* never poisoned, and so no later Store call fails on it.                 *)
(***************************************************************************)
C20_SinkFailureNeverAborts ==
    /\ \A w \in DOMAIN workers : workers[w].cause \notin {"log_error", "poisoned"}
    /\ ~dbPoisoned

\* one direct call that returned: create_todo
C21_CreateStep ==
    history' # history =>
        LET e == history'[Len(history')]
            id == Cardinality(DOMAIN db) + 1
        IN IsCreate(e) =>
              /\ AnsweredId(e, id)
              /\ Key(id) \in DOMAIN db'
              /\ db'[Key(id)] = Todo(id, e.call.title[1], FALSE)

(***************************************************************************)
(* C21: create_todo gives the new record the id (number of records in the  *)
(* store) + 1 and stores it under that id, so an id is used again after a  *)
(* deletion: when the records 1..3 are stored and record 3 is deleted, the *)
(* next create is answered with id 3.                                      *)
(***************************************************************************)
C21_IdIsCountPlusOne == [][C21_CreateStep]_vars

\* the records 1..3 were stored, record 3 was deleted, and the next create
\* was answered with id 3
C21_Witness ==
    /\ Len(history) = 2
    /\ IsDeleted(history[1], 3)
    /\ DOMAIN history[1].db = {"1", "2"}
    /\ IsCreate(history[2])
    /\ AnsweredId(history[2], 3)
    /\ DOMAIN db = {"1", "2", "3"}

(***************************************************************************)
(* C22: the Store calls form one total order whatever the order the jobs   *)
(* were submitted in: at most one worker is inside a Store function, every *)
(* call worked on the store the call before it left, a job has one place   *)
(* in the order, and the store is the one the last call left.  Only a pool *)
(* of one worker keeps the order of submission; with two workers a job     *)
(* submitted later can apply its mutation first (the witness).             *)
(***************************************************************************)
C22_TotalOrderOnly ==
    /\ Cardinality(InStore) <= 1
    /\ \A i, k \in Events : i # k => history[i].job # history[k].job
    /\ \A n \in Events :
          history[n].db = CallStore(history[n].call, StoreBefore(n)).db
    /\ db = StoreLeft
    /\ size = 1 => \A i, k \in Events : i < k => history[i].job < history[k].job

\* two creates: the job submitted second created record 1, the job
\* submitted first record 2
C22_Witness ==
    /\ size = 2
    /\ Len(history) = 2
    /\ history[1].job = 2 /\ IsCreate(history[1]) /\ AnsweredId(history[1], 1)
    /\ history[2].job = 1 /\ IsCreate(history[2]) /\ AnsweredId(history[2], 2)

(***************************************************************************)
(* C23: a worker holds the lock of the receiver exactly while it is inside *)
(* recv, waiting for a job or taking it; a worker that runs a job does not *)
(* hold it, so another worker can take the next job meanwhile, and no more *)
(* jobs run at a time than there are workers.                              *)
(***************************************************************************)
C23_ReceiveLockOnlyInRecv ==
    /\ \A w \in DOMAIN workers : (rxLock = Some(w)) <=> (workers[w].pc = "recv")
    /\ \A w \in DOMAIN workers : workers[w].job # 0 => rxLock # Some(w)
    /\ Cardinality({j \in JobIds : jobs[j].state = "running"}) <= size

\* one worker is inside a Store function while the other holds the lock of
\* the receiver and finds the next job in the channel
C23_Witness ==
    \E w1, w2 \in DOMAIN workers :
        /\ workers[w1].pc = "in_db"
        /\ workers[w2].pc = "recv"
        /\ rxLock = Some(w2)
        /\ queue # << >>

\* a step taken while every worker of the pool waits in stream.read
C24_StalledStep ==
    (DOMAIN workers # {} /\ \A w \in DOMAIN workers : workers[w].pc = "read") =>
        /\ \A j \in JobIds : jobs'[j].runs = jobs[j].runs
        /\ \/ queue' = queue
           \/ \E j \in JobIds : queue' = Append(queue, j)
        /\ \A w \in DOMAIN workers :
              \/ workers'[w] = workers[w]
              \/ jobs'[workers[w].job].reads = jobs[workers[w].job].reads + 1

(***************************************************************************)
(* C24: a job runs to completion, with no timeout: a worker that waits in  *)
(* stream.read leaves it only when the read returns, and while all the     *)
(* workers of the pool wait there no job is taken from the channel: jobs   *)
(* submitted meanwhile only queue up.                                      *)
(***************************************************************************)
C24_StalledReadsStarvePool == [][C24_StalledStep]_vars

\* both workers wait in stream.read and the third job sits in the channel
C24_Witness ==
    /\ size = 2
    /\ \A w \in DOMAIN workers : workers[w].pc = "read"
    /\ queue = << 3 >>
    /\ jobs[3].state = "queued" /\ jobs[3].runs = 0

\* the job's run of handle_connection is over
Ended(j) == jobs[j].state \notin {"unsent", "queued", "running"}

(***************************************************************************)
(* C25 (as claimed): handle_connection reads once and writes at most once; *)
(* after a failed read nothing is written; after a successful read exactly *)
(* one response is written; and a failed write ends the job quietly, never *)
(* in a panic.                                                             *)
(***************************************************************************)
C25_OneReadOneWrite ==
    \A j \in JobIds :
        /\ jobs[j].reads <= 1
        /\ jobs[j].writes <= 1
        /\ jobs[j].writes = 1 => jobs[j].readOk
        /\ (Ended(j) /\ jobs[j].readOk) => jobs[j].writes = 1
        /\ (Ended(j) /\ jobs[j].writes = 1) => jobs[j].state \in {"responded", "write_failed"}

(***************************************************************************)
(* C26: a POST /todos or PUT /todos/1 that carries a valid document after  *)
(* the blank line but no Content-Length header, or one whose value is no   *)
(* number, is handled as a request with an empty body: it is answered 400  *)
(* with the message an empty body gets ("Invalid JSON format." for POST,   *)
(* "JSON deserialization error occurred." for PUT), no Store function is   *)
(* called and the store is unchanged.                                      *)
(***************************************************************************)
C26_NoLengthBodyIsEmpty ==
    \A w \in DOMAIN workers :
        /\ \A r \in NoLengthPosts :
              Delivered(w, r) =>
                  /\ RejectedWith(w, BadRequest)
                  /\ workers[w].out.body = "Invalid JSON format."
                  /\ workers[w].out = Out(ParseRequest(NoBody("POST", "/todos")).status,
                                          ParseRequest(NoBody("POST", "/todos")).body, {})
        /\ \A r \in NoLengthPuts :
              Delivered(w, r) =>
                  /\ RejectedWith(w, BadRequest)
                  /\ workers[w].out.body = "JSON deserialization error occurred."
                  /\ workers[w].out = Out(ParseRequest(NoBody("PUT", "/todos/1")).status,
                                          ParseRequest(NoBody("PUT", "/todos/1")).body, {})

\* a PUT /todos/1 without a usable Content-Length is turned away while the
\* record it names is stored and not completed
C26_Witness ==
    \E w \in DOMAIN workers :
        /\ workers[w].req \in NoLengthPuts
        /\ workers[w].pc = "write"
        /\ workers[w].out.status = BadRequest
        /\ "1" \in DOMAIN db
        /\ ~db["1"].completed

(***************************************************************************)
(* C27: handle_connection reads once, at most BufferSize bytes.  No job    *)
(* reads twice, no request text longer than the buffer reaches             *)
(* process_request, and a request longer than the buffer is handled as its *)
(* first BufferSize bytes alone: the padded POST /todos is answered 400    *)
(* "Invalid JSON format." whatever follows the buffer (even a valid        *)
(* create), with no Store call and the store unchanged, and the create     *)
(* whose body runs beyond the buffer never reaches a Store function.       *)
(***************************************************************************)
C27_OneChunkOnly ==
    /\ \A j \in JobIds : jobs[j].reads <= 1
    /\ \A w \in DOMAIN workers :
          /\ Len(workers[w].req) <= BufferSize
          /\ workers[w].req \notin LongRequests
          /\ \A sent \in PaddedRequests :
                Delivered(w, SubSeq(sent, 1, BufferSize)) =>
                    /\ RejectedWith(w, BadRequest)
                    /\ workers[w].out.body = "Invalid JSON format."
          /\ \A sent \in LongBodyRequests :
                Delivered(w, SubSeq(sent, 1, BufferSize)) =>
                    /\ workers[w].cause = "body_slice"
                    /\ NoStoreCall(w)
                    /\ db = StoreLeft

\* the first BufferSize bytes of a padded request have been answered while
\* a record is stored
C27_Witness ==
    \E w \in DOMAIN workers :
        /\ \E sent \in PaddedRequests : workers[w].req = SubSeq(sent, 1, BufferSize)
        /\ Len(workers[w].req) = BufferSize
        /\ workers[w].pc = "write"
        /\ workers[w].out.status = BadRequest
        /\ jobs[workers[w].job].reads = 1
        /\ db # EmptyDb

\* the n-th call of the history is a create that was answered 201
CreatedAt(n) == IsCreate(history[n]) /\ history[n].out.status = Created201

(***************************************************************************)
(* C28 (as claimed): in every sequence of Store calls, a successful create *)
(* leaves one record more than the call before it left, and every record   *)
(* that was stored before the create is still stored, unchanged.           *)
(***************************************************************************)
C28_CreateNeverOverwrites ==
    \A n \in Events :
        (n > 1 /\ CreatedAt(n)) =>
            LET before == history[n - 1].db
                after == history[n].db
            IN /\ Cardinality(DOMAIN after) = Cardinality(DOMAIN before) + 1
               /\ \A k \in DOMAIN before : k \in DOMAIN after /\ after[k] = before[k]

\* the answers that may come with a change of the store: 201 Created, and
\* 200 OK to a PUT or a DELETE
MayChange(e) ==
    \/ e.out.status = Created201
    \/ e.out.status = Ok200 /\ e.call.fn \in {"update_todo", "delete_todo"}

(***************************************************************************)
(* C29: a request answered with anything but 201 Created, or 200 OK to a   *)
(* PUT or DELETE, leaves the store unchanged.  Every Store call with such  *)
(* an answer (every GET, and the 404 of PUT and DELETE) leaves the store   *)
(* it found, and a request turned away by process_request itself (400,     *)
(* 404, 405, 505) has made no Store call at all, the store being the one   *)
(* the last Store call left.                                               *)
(***************************************************************************)
C29_OtherAnswersReadOnly ==
    /\ \A n \in Events : ~MayChange(history[n]) => history[n].db = StoreBefore(n)
    /\ \A w \in DOMAIN workers :
          (workers[w].pc = "write" /\ workers[w].route.kind = "reject") =>
              /\ workers[w].out.status \in Rejections
              /\ NoStoreCall(w)
              /\ db = StoreLeft
    /\ \A w \in DOMAIN workers :
          (workers[w].pc = "write" /\ workers[w].out.status \notin {Created201, Ok200}) =>
              db = StoreLeft

\* on a store with a record, a GET answered 200 has left the store as it
\* was, and a request turned away with 405 waits to be answered
C29_Witness ==
    /\ Len(history) = 2
    /\ IsCreate(history[1])
    /\ history[2].call.fn = "get_todo" /\ history[2].out.status = Ok200
    /\ history[2].db = history[1].db
    /\ db # EmptyDb
    /\ \E w \in DOMAIN workers :
          /\ workers[w].pc = "write"
          /\ workers[w].out.status = MethodNotAllowed
          /\ NoStoreCall(w)

\* the record stored under key k of store d is well formed
WellFormed(d, k) ==
    /\ k = ToString(d[k].id)
    /\ d[k].id >= 1
    /\ Trim(d[k].title) # ""
    /\ d[k].completed \in BOOLEAN

(***************************************************************************)
(* C30: starting from the empty store, whatever requests process_request   *)
(* has handled, every stored record is well formed: its key is the decimal *)
(* text of its id, its id is at least 1 and its title is not blank.  This  *)
(* holds for the store itself and for every store a Store call has left.   *)
(***************************************************************************)
C30_RecordsWellFormed ==
    /\ \A k \in DOMAIN db : WellFormed(db, k)
    /\ \A n \in Events : \A k \in DOMAIN history[n].db : WellFormed(history[n].db, k)

\* record 1 was created and then updated to the title " b ", completed
C30_Witness ==
    /\ Len(history) = 2
    /\ IsCreate(history[1])
    /\ history[2].call.fn = "update_todo" /\ history[2].out.status = Ok200
    /\ db = [k \in {"1"} |-> Todo(1, " b ", TRUE)]

(***************************************************************************)
(* The pool under fair scheduling.  Every worker thread that can take a    *)
(* step eventually takes one (the OS schedules every runnable thread), and *)
(* every job terminates: the read and the write of its connection return.  *)
(* main and the sink are the environment and owe nothing.                  *)
(***************************************************************************)
\* the steps of the worker loop outside the job
LoopStep(w) == WorkerLock(w) \/ WorkerRecv(w)

\* the steps of a job: handle_connection from the read to the write
JobStep(w) ==
    \/ ReadFails(w)
    \/ ReadRequest(w, PoolRequests)
    \/ StoreLock(w)
    \/ StoreEnter(w)
    \/ StoreFinish(w)
    \/ WriteResponse(w)

Fairness ==
    \A w \in AllWorkers : WF_vars(LoopStep(w)) /\ WF_vars(JobStep(w))

FairSpec == Spec /\ Fairness

(***************************************************************************)
(* C31 (as claimed): under fair scheduling, with every job terminating,    *)
(* every job that execute has put into the channel is eventually received  *)
(* and run by a worker.                                                    *)
(***************************************************************************)
C31_EveryJobRuns ==
    \A j \in JobIds : (jobs[j].state = "queued") ~> (jobs[j].runs >= 1)

\* worker w is blocked in Mutex::lock on a lock that worker v holds
WaitsFor(w, v) ==
    \/ workers[w].pc = "lock_rx" /\ rxLock = Some(v)
    \/ workers[w].pc = "lock_db" /\ dbLock = Some(v)

(***************************************************************************)
(* C32: no worker holds the receiver's lock and the store's lock at once.  *)
(* The receiver's lock is held only inside recv, the store's lock exactly  *)
(* from db.lock() to the return of the Store function, and its holder can  *)
(* always take its next step.  So a worker that holds a lock never waits   *)
(* for a lock: a worker that another one waits for waits for nobody, and   *)
(* the workers cannot deadlock on the two locks.                           *)
(***************************************************************************)
C32_LocksNeverNested ==
    /\ rxLock # None => rxLock[1] \in DOMAIN workers
    /\ dbLock # None => dbLock[1] \in DOMAIN workers
    /\ \A w \in DOMAIN workers :
          /\ ~(rxLock = Some(w) /\ dbLock = Some(w))
          /\ rxLock = Some(w) => workers[w].pc = "recv"
          /\ dbLock = Some(w) <=> w \in InStore
          /\ (dbLock = Some(w) /\ mainPc = "serve") =>
                ENABLED (StoreEnter(w) \/ StoreFinish(w))
    /\ \A w, v \in DOMAIN workers :
          WaitsFor(w, v) => \A u \in DOMAIN workers : ~WaitsFor(v, u)

\* one worker is inside update_todo with the store's lock, the other one
\* waits for that lock, and nobody holds the receiver's lock
C32_Witness ==
    \E w, v \in DOMAIN workers :
        /\ workers[w].pc = "apply"
        /\ dbLock = Some(w)
        /\ WaitsFor(v, w)
        /\ rxLock = None

=============================================================================
